---- MODULE Spec2Model ----
(***************************************************************************)
(* BoardGameGeek trend scraper (src/usr/src/app/src/main.js).              *)
(*                                                                         *)
(* The crawler takes one request at a time from the queue, classifies the  *)
(* loaded URL, and runs either the game-page extractor (HTML record,       *)
(* optional BGG API enrichment, key-value write, dataset push) or the      *)
(* listing handler (enqueueLinks with the same-host filter, then one       *)
(* dataset push per row that has a resolvable link).                       *)
(*                                                                         *)
(* JavaScript values: Null is null, Undef is undefined (also: a key the    *)
(* object does not have), "" is the empty string, <<>> the empty array.    *)
(* A URL string is a record [valid, host, path]: valid says whether        *)
(* `new URL(s)` parses it, path is the list of "/"-separated segments      *)
(* after the host.                                                         *)
(***************************************************************************)
EXTENDS Integers, Sequences, FiniteSets, TLC

\* ------------------------------------------------------------------ bounds
MaxRequestsPerCrawl == 2
MaxRows == 2
MaxLinks == 1

\* ------------------------------------------------------------- JS values
Null == "null"
Undef == "undefined"

\* JS truthiness of a scalar (string / null / undefined) as used by `||`.
Truthy(v) == v \notin {Null, Undef, ""}

\* a || b
Or(a, b) == IF Truthy(a) THEN a ELSE b

\* ------------------------------------------------------------------ URLs
Url(h, p) == [valid |-> TRUE, host |-> h, path |-> p]
BadUrl == [valid |-> FALSE, host |-> "", path |-> <<>>]
NoUrl == [valid |-> FALSE, host |-> Null, path |-> <<>>]

\* The "/"-separated pieces of the whole URL string: "https:", "", host, path...
Segments(u) == <<"https:", "", u.host>> \o u.path

\* Case folding done by the `i` flag and by the glob matcher.
Lower(s) == CASE s = "BoardGame" -> "boardgame"
              [] s = "Thing" -> "thing"
              [] OTHER -> s

\* Does the URL string contain "/<word>/" (case-insensitively)?
ContainsSegment(u, word) ==
  LET s == Segments(u)
  IN \E i \in 2..(Len(s) - 1) : Lower(s[i]) = word

\* /\/boardgame\/|\/thing\//i.test(url)            (requestHandler)
IsGamePage_onlyBoardgame(u) == ContainsSegment(u, "boardgame")

IsGamePage(u) == ContainsSegment(u, "boardgame") \/ ContainsSegment(u, "thing")

\* One glob of enqueueLinks: `**/<word>/*` (extra = 0) or `**/<word>/*/*`
\* (extra = 1), matched against the whole URL string.
GlobMatch(u, word, extra) ==
  LET s == Segments(u)
      n == Len(s)
  IN /\ u.valid
     /\ n - 1 - extra >= 2
     /\ Lower(s[n - 1 - extra]) = word
     /\ \A j \in (n - extra)..n : s[j] # ""

\* globs of the Cheerio listing handler
CheerioGlobs(u) ==
  \/ GlobMatch(u, "boardgame", 0)
  \/ GlobMatch(u, "thing", 0)
  \/ GlobMatch(u, "boardgame", 1)

\* globs of the Playwright listing branch
PlaywrightGlobs(u) ==
  \/ GlobMatch(u, "boardgame", 0)
  \/ GlobMatch(u, "thing", 0)

\* resolveUrl(base, href): new URL(href, base).toString(), null when it throws.
\* href is [kind, host, path]: "abs" an absolute URL, "rel" a root-relative
\* path, "bad" a string the URL parser rejects.
resolveUrl(base, href) ==
  CASE href.kind = "abs" -> Url(href.host, href.path)
    [] href.kind = "rel" -> Url(base.host, href.path)
    [] OTHER -> NoUrl

\* text.replace(/[^\d]/g, '')
DigitsOnly(s) == CASE s = "1." -> "1"
                   [] s = "#12" -> "12"
                   [] s = "1,250 ratings" -> "1250"
                   [] s = "(1995)" -> "1995"
                   [] OTHER -> ""

\* The leading \d+ of a path segment ("" when it does not start with a digit).
LeadingDigits(s) == CASE s = "42" -> "42"
                      [] s = "7-wonders" -> "7"
                      [] OTHER -> ""

\* ----------------------------------------------------- identifier regexes
Max(S) == CHOOSE x \in S : \A y \in S : y <= x
Min(S) == CHOOSE x \in S : \A y \in S : x <= y

\* Segments j after "/boardgame/.../" that start with a digit (first
\* alternative, /\/boardgame\/(?:.*)\/(\d+)/, started at segment i).
SlugThenId(p, i) == {j \in (i + 2)..Len(p) : LeadingDigits(p[j]) # ""}

\* Second alternative, /\/boardgame\/(\d+)/, started at segment i.
IdDirect(p, i) == i + 1 <= Len(p) /\ LeadingDigits(p[i + 1]) # ""

\* canonical.match(/\/boardgame\/(?:.*)\/(\d+)|\/boardgame\/(\d+)/), then
\* m[1] || m[2] || ''.  The leftmost start wins, the first alternative is
\* tried first and its .* is greedy.  p is the path of the href (<<>>: none).
MatchCanonical(p) ==
  LET starts == {i \in 1..(Len(p) - 1) :
                   p[i] = "boardgame" /\ (SlugThenId(p, i) # {} \/ IdDirect(p, i))}
  IN IF starts = {} THEN ""
     ELSE LET i == Min(starts)
          IN IF SlugThenId(p, i) # {}
             THEN LeadingDigits(p[Max(SlugThenId(p, i))])
             ELSE LeadingDigits(p[i + 1])

\* metaId.match(/\/boardgame\/(?:.*)\/(\d+)/), then m2[1].
MatchOgUrl(p) ==
  LET starts == {i \in 1..(Len(p) - 1) : p[i] = "boardgame" /\ SlugThenId(p, i) # {}}
  IN IF starts = {} THEN ""
     ELSE LeadingDigits(p[Max(SlugThenId(p, Min(starts)))])

\* bggId of a game page; the og:url fallback exists in the Cheerio variant only.
BggIdOf(doc, browser) ==
  LET fromCanonical == MatchCanonical(doc.canonical)
  IN IF fromCanonical = "" /\ ~browser THEN MatchOgUrl(doc.ogUrl) ELSE fromCanonical

\* ------------------------------------------------------ HTML-only record
\* The record literal built from the page.  geek_rating is not a key of the
\* literal, so reading it gives undefined.
HtmlRecord(doc, url, now, browser) ==
  [ name |-> IF browser THEN Or(doc.h1, "") ELSE Or(doc.h1, Or(doc.ogTitle, "")),
    bgg_id |-> Or(BggIdOf(doc, browser), ""),
    year |-> Or(DigitsOnly(doc.yearText), ""),
    avg_rating |-> Or(doc.ratingText, ""),
    num_voters |-> Or(Or(DigitsOnly(doc.votersText), ""), ""),
    designers |-> doc.designers,
    mechanics |-> doc.mechanics,
    categories |-> doc.categories,
    description |-> Or(doc.description, ""),
    url |-> url,
    extracted_at |-> now,
    geek_rating |-> Undef ]

\* ------------------------------------------------------- BGG API client
\* An optional subtree is a sequence of length 0 (absent) or 1 (present).
None == <<>>
Some(x) == <<x>>

\* What fetchBggApi returns: the parsed tree (Some), or null (None) when
\* fetch throws, the status is not ok, or the XML parser throws.
fetchBggApi(resp) ==
  IF resp.kind = "ok" THEN Some(resp.json) ELSE None

\* A "one or many" child: items holds the elements, isArray tells whether
\* xml2js produced an array (two or more siblings) or a bare element.
\* links = Array.isArray(t.link) ? t.link : (t.link ? [t.link] : [])
LinksOf(t) == t.link.items

\* const value = l.value || l.name || ''
LinkValue(l) == Or(l.value, Or(l.name, ""))

RECURSIVE ValuesOfType(_, _)
ValuesOfType(links, type) ==
  IF links = <<>> THEN <<>>
  ELSE LET rest == ValuesOfType(Tail(links), type)
       IN IF Head(links).type = type THEN <<LinkValue(Head(links))>> \o rest ELSE rest

\* The compact item normalizeBggApi builds from json.thing.
ItemOf(t) ==
  [ bgg_id |-> t.id,
    name |-> IF t.name.isArray THEN t.name.items[1].value
             ELSE Or(IF t.name.items # <<>> THEN t.name.items[1].value ELSE Undef, ""),
    year |-> IF t.yearpublished # None THEN t.yearpublished[1].value ELSE "",
    description |-> IF Truthy(t.description) THEN t.description ELSE "",
    designers |-> ValuesOfType(LinksOf(t), "boardgamedesigner"),
    mechanics |-> ValuesOfType(LinksOf(t), "boardgamemechanic"),
    categories |-> ValuesOfType(LinksOf(t), "boardgamecategory"),
    geek_rating |-> IF t.statistics # None /\ t.statistics[1].ratings # None
                       /\ t.statistics[1].ratings[1].ranks # None
                    THEN t.statistics[1].ratings[1].ranks[1].rank ELSE Null,
    avg_rating |-> IF t.statistics # None /\ t.statistics[1].ratings # None
                   THEN t.statistics[1].ratings[1].average ELSE Null,
    num_voters |-> IF t.statistics # None /\ t.statistics[1].ratings # None
                   THEN t.statistics[1].ratings[1].usersrated ELSE Null ]

\* An item built from an empty tree (what a missing guard would produce).
EmptyThing ==
  [ id |-> Undef, name |-> [isArray |-> FALSE, items |-> <<>>], yearpublished |-> <<>>,
    description |-> Undef, statistics |-> <<>>, link |-> [isArray |-> FALSE, items |-> <<>>] ]

normalizeBggApi_noGuard(apiJson) ==
  IF apiJson # None /\ apiJson[1].thing # None
  THEN Some(ItemOf(apiJson[1].thing[1]))
  ELSE Some(ItemOf(EmptyThing))

\* normalizeBggApi(json): null (None) when json or json.thing is missing.
normalizeBggApi(apiJson) ==
  IF apiJson = None \/ apiJson[1].thing = None
  THEN None
  ELSE Some(ItemOf(apiJson[1].thing[1]))

\* ------------------------------------------------------- reconciliation
\* Object.assign(record, {...}) with the six enrichment fields.
Enrich_union(record, n) ==
  [record EXCEPT
     !.geek_rating = Or(n.geek_rating, Or(record.geek_rating, "")),
     !.avg_rating = Or(n.avg_rating, record.avg_rating),
     !.num_voters = Or(n.num_voters, record.num_voters),
     !.designers = record.designers \o n.designers,
     !.mechanics = record.mechanics \o n.mechanics,
     !.categories = record.categories \o n.categories]

Enrich_overwriteName(record, n) ==
  [record EXCEPT
     !.name = Or(n.name, record.name),
     !.geek_rating = Or(n.geek_rating, Or(record.geek_rating, "")),
     !.avg_rating = Or(n.avg_rating, record.avg_rating),
     !.num_voters = Or(n.num_voters, record.num_voters),
     !.designers = IF n.designers # <<>> THEN n.designers ELSE record.designers,
     !.mechanics = IF n.mechanics # <<>> THEN n.mechanics ELSE record.mechanics,
     !.categories = IF n.categories # <<>> THEN n.categories ELSE record.categories]

Enrich(record, n) ==
  [record EXCEPT
     !.geek_rating = Or(n.geek_rating, Or(record.geek_rating, "")),
     !.avg_rating = Or(n.avg_rating, record.avg_rating),
     !.num_voters = Or(n.num_voters, record.num_voters),
     !.designers = IF n.designers # <<>> THEN n.designers ELSE record.designers,
     !.mechanics = IF n.mechanics # <<>> THEN n.mechanics ELSE record.mechanics,
     !.categories = IF n.categories # <<>> THEN n.categories ELSE record.categories]

\* ---------------------------------------------------------------- state
VARIABLES
  startUrls,          \* input.startUrls
  useBrowser,         \* input.useBrowser
  useBggApi,          \* input.useBggApi
  followInternalOnly, \* input.followInternalOnly
  queue,              \* requests waiting in the crawler's request queue
  handled,            \* requests handed to requestHandler so far
  pc,                 \* where the running requestHandler is ("idle": none is running)
  request,            \* ctx.request of the running handler
  loadedUrl,          \* request.loadedUrl ?? request.url
  doc,                \* the game page as the selectors see it
  record,             \* the `record` object of the game-page extractor
  apiStalls,          \* the BGG API never answers the pending fetch
  apiJson,            \* what fetchBggApi returned
  normalized,         \* what normalizeBggApi returned
  rows,               \* the row containers matched on the listing page
  rowIdx,             \* the row the for-loop is at
  pushed,             \* dataset.pushData calls of this visit: [record, ok]
  kvCalls,            \* kv.setValue calls of this visit: [key, ok]
  outcome,            \* how the visit ended: "running", "done" or "pushDataError"
  redirected          \* some visit so far had loadedUrl # request.url

vars == <<startUrls, useBrowser, useBggApi, followInternalOnly, queue, handled, pc,
          request, loadedUrl, doc, record, apiStalls, apiJson, normalized, rows,
          rowIdx, pushed, kvCalls, outcome, redirected>>

\* ------------------------------------------------------------- inputs
Site == "boardgamegeek.com"
Other == "example.org"

\* Seeds: the two default start URLs (one of them also on another host), and
\* a game page given directly as a seed.
StartUrlChoices ==
  { <<Url(Site, <<"hot">>)>>,
    <<Url(Site, <<"hot">>), Url(Other, <<"browse", "boardgame">>)>>,
    <<Url(Site, <<"boardgame", "42", "catan">>)>> }

\* A link the URL parser rejects although it has the shape of a game link.
BadLink == [valid |-> FALSE, host |-> "[", path |-> <<"boardgame", "13">>]

\* Links that can appear on a listing page.
LinkPool ==
  { Url(Site, <<"Thing", "7">>),
    Url(Site, <<"boardgame", "42", "catan">>),
    Url(Other, <<"boardgame", "42">>),
    BadLink }

\* Where a request may be redirected to.
RedirectTargets == { Url(Other, <<"login">>) }

NoLink == [kind |-> "none", host |-> "", path |-> <<>>]

\* Row containers of a listing page: the href of the first game link in the
\* row (kind "none": the row has no such link), its text, rank and hotness.
RankedRow ==
  [link |-> [kind |-> "rel", host |-> "", path |-> <<"boardgame", "42">>],
   name |-> "Catan", rankText |-> "1.", hotness |-> "+2"]
UnrankedRow ==
  [link |-> [kind |-> "abs", host |-> Site, path |-> <<"thing", "7">>],
   name |-> "Azul", rankText |-> "", hotness |-> ""]
BrokenRow ==
  [link |-> [kind |-> "bad", host |-> "[", path |-> <<"boardgame", "13">>],
   name |-> "Broken", rankText |-> "#12", hotness |-> ""]
HeaderRow ==
  [link |-> NoLink, name |-> "", rankText |-> "1.", hotness |-> ""]

\* Listing pages: the first rows (at most MaxRows) of one of these tables.
Tables ==
  { <<RankedRow, UnrankedRow, HeaderRow, BrokenRow>>,
    <<HeaderRow, RankedRow, BrokenRow, UnrankedRow>>,
    <<BrokenRow, UnrankedRow, RankedRow, HeaderRow>>,
    <<UnrankedRow, HeaderRow, RankedRow, BrokenRow>> }

RowLists ==
  { SubSeq(t, 1, n) : t \in Tables, n \in 0..(IF MaxRows < 4 THEN MaxRows ELSE 4) }

\* Where a game page carries its id: nowhere, in the canonical link, or only
\* in the og:url meta tag.
IdPlaces ==
  { [canonical |-> <<>>, ogUrl |-> <<>>],
    [canonical |-> <<"boardgame", "42", "7-wonders">>, ogUrl |-> <<>>],
    [canonical |-> <<>>, ogUrl |-> <<"boardgame", "catan", "42">>] }

\* What the rating and designer selectors find: nothing, or something.
Bodies ==
  { [ratingText |-> "", designers |-> <<>>],
    [ratingText |-> "7.1", designers |-> <<"Bob", "Alice">>] }

\* Game pages as the selectors see them.
Docs ==
  { [ h1 |-> "Catan", ogTitle |-> "Catan | BGG",
      canonical |-> p.canonical, ogUrl |-> p.ogUrl,
      yearText |-> "(1995)", ratingText |-> b.ratingText,
      votersText |-> "1,250 ratings",
      designers |-> b.designers, mechanics |-> <<"Dice">>, categories |-> <<>>,
      description |-> "Trade, build, settle." ] :
      p \in IdPlaces, b \in Bodies }

NoDoc == <<>>

Link(t, v, n) == [type |-> t, value |-> v, name |-> n]

\* Shapes of the statistics subtree.
NoRatings == [ratings |-> None]
EmptyRatings == [ratings |-> Some([ranks |-> None, average |-> "", usersrated |-> Undef])]
FullRatings ==
  [ratings |-> Some([ranks |-> Some([rank |-> "7.9"]), average |-> "8.0",
                     usersrated |-> "2000"])]

\* Shapes of the link children: none, a bare element, an array.
NoLinks == [isArray |-> FALSE, items |-> <<>>]
OneLink == [isArray |-> FALSE, items |-> <<Link("boardgamedesigner", "Alice", Undef)>>]
ManyLinks ==
  [isArray |-> TRUE,
   items |-> <<Link("boardgamedesigner", "Alice", Undef),
               Link("boardgamemechanic", "", "Trading"),
               Link("boardgamepublisher", "Kosmos", Undef),
               Link("boardgamecategory", "Economic", Undef)>>]

Thing(stats, links) ==
  [ id |-> "42",
    name |-> [isArray |-> TRUE, items |-> <<[value |-> "Die Siedler"], [value |-> "Catan"]>>],
    yearpublished |-> Some([value |-> "1996"]),
    description |-> "From the API.",
    statistics |-> stats,
    link |-> links ]

\* `thing` trees the XML parser can produce.
Things ==
  { Thing(st, ln) : st \in {None, Some(EmptyRatings), Some(FullRatings)},
                    ln \in {NoLinks, ManyLinks} }
  \cup { Thing(Some(NoRatings), OneLink) }

\* What the HTTP call and the XML parser can come back with.
ApiResponses ==
  { [kind |-> k, json |-> [thing |-> None]] : k \in {"networkError", "notOk", "parseError"} }
  \cup { [kind |-> "ok", json |-> [thing |-> None]] }
  \cup { [kind |-> "ok", json |-> [thing |-> Some(t)]] : t \in Things }

\* ------------------------------------------------------------- requests
NoRequest == [url |-> NoUrl, userData |-> [startHost |-> Undef], seed |-> 0, depth |-> 0]

\* startRequests: { url: u, userData: { startHost: p.host } }, or userData {}
\* when `new URL(u)` throws.  seed and depth are bookkeeping of the model.
StartRequest(i) ==
  [ url |-> startUrls[i],
    userData |-> [startHost |-> IF startUrls[i].valid THEN startUrls[i].host ELSE Undef],
    seed |-> i,
    depth |-> 0 ]

\* transformRequestFunction of enqueueLinks: TRUE keeps the request r,
\* FALSE is `return null`.
transformRequestFunction_noHostCheck(req, r) == TRUE

transformRequestFunction(req, r) ==
  IF followInternalOnly
  THEN /\ Truthy(req.userData.startHost) \/ req.url.valid
       /\ r.valid
       /\ r.host = Or(req.userData.startHost, req.url.host)
  ELSE TRUE

\* userData given to the requests enqueueLinks creates: the Playwright branch
\* passes { startHost }, the Cheerio listing handler passes none.
EnqueuedUserData(req) ==
  IF useBrowser
  THEN [startHost |-> Or(req.userData.startHost, req.url.host)]
  ELSE [startHost |-> Undef]

\* The requests one enqueueLinks call adds for the links found on the page.
Enqueued(req, links) ==
  { [url |-> l, userData |-> EnqueuedUserData(req), seed |-> req.seed,
     depth |-> req.depth + 1] :
      l \in { c \in links :
                /\ IF useBrowser THEN PlaywrightGlobs(c) ELSE CheerioGlobs(c)
                /\ transformRequestFunction(req, c) } }

\* kv key `games/${bggId}`
KvKey(bggId) == [prefix |-> "games/", id |-> bggId]

\* Where the extractor continues after kv.setValue: the catch logs a warning
\* and falls through to the dataset push whether or not the write succeeded.
AfterKv_rethrow(ok) == IF ok THEN "push" ELSE "abort"

AfterKv(ok) == "push"

\* The row record built for one listing row.
RowRecord(row, abs, url, now) ==
  [ name |-> Or(row.name, ""),
    url |-> abs,
    rank |-> Or(Or(DigitsOnly(row.rankText), ""), ""),
    hotness |-> Or(Or(row.hotness, ""), ""),
    source_page |-> url,
    extracted_at |-> now ]

\* const abs = link ? resolveUrl(url, link) : null
RowAbs(row, url) ==
  IF row.link.kind = "none" THEN NoUrl ELSE resolveUrl(url, row.link)

\* ----------------------------------------------------------- behaviour
Init ==
  /\ startUrls \in StartUrlChoices
  /\ useBrowser \in BOOLEAN
  /\ useBggApi \in BOOLEAN
  /\ followInternalOnly \in BOOLEAN
  /\ queue = {StartRequest(i) : i \in 1..Len(startUrls)}
  /\ handled = 0
  /\ pc = "idle"
  /\ request = NoRequest
  /\ loadedUrl = NoUrl
  /\ doc = NoDoc
  /\ record = None
  /\ apiStalls = FALSE
  /\ apiJson = None
  /\ normalized = None
  /\ rows = <<>>
  /\ rowIdx = 0
  /\ pushed = <<>>
  /\ kvCalls = <<>>
  /\ outcome = "running"
  /\ redirected = FALSE

\* The crawler takes a request from the queue, loads it (possibly through a
\* redirect) and calls requestHandler, which classifies the loaded URL.
RequestHandler(r, loaded) ==
  /\ pc = "idle"
  /\ handled < MaxRequestsPerCrawl
  /\ r \in queue
  /\ r.url.valid
  /\ queue' = queue \ {r}
  /\ handled' = handled + 1
  /\ request' = r
  /\ loadedUrl' = loaded
  /\ redirected' = (redirected \/ loaded # r.url)
  /\ pc' = IF IsGamePage(loaded) THEN "game" ELSE "listing"
  /\ doc' = NoDoc
  /\ record' = None
  /\ apiStalls' = FALSE
  /\ apiJson' = None
  /\ normalized' = None
  /\ rows' = <<>>
  /\ rowIdx' = 0
  /\ pushed' = <<>>
  /\ kvCalls' = <<>>
  /\ outcome' = "running"
  /\ UNCHANGED <<startUrls, useBrowser, useBggApi, followInternalOnly>>

\* extractGameFromPageCheerio / extractGameFromPagePlaywright up to the
\* `await fetchBggApi(bggId)`: the selectors are read and the record built.
ExtractGame(d, stalls) ==
  /\ pc = "game"
  /\ doc' = d
  /\ record' = HtmlRecord(d, loadedUrl, handled, useBrowser)
  /\ IF useBggApi /\ Truthy(BggIdOf(d, useBrowser))
     THEN pc' = "fetch" /\ apiStalls' = stalls
     ELSE pc' = "push" /\ apiStalls' = FALSE /\ stalls = FALSE
  /\ UNCHANGED <<startUrls, useBrowser, useBggApi, followInternalOnly, queue, handled,
                 request, loadedUrl, apiJson, normalized, rows, rowIdx, pushed,
                 kvCalls, outcome, redirected>>

\* The fetch settles (response, error status, network error or parse error);
\* the payload is normalized and, when there is one, merged into the record.
FetchReturns(resp) ==
  /\ pc = "fetch"
  /\ ~apiStalls
  /\ LET json == fetchBggApi(resp)
         n == normalizeBggApi(json)
     IN /\ apiJson' = json
        /\ normalized' = n
        /\ IF n # None
           THEN record' = Enrich(record, n[1]) /\ pc' = "kv"
           ELSE record' = record /\ pc' = "push"
  /\ UNCHANGED <<startUrls, useBrowser, useBggApi, followInternalOnly, queue, handled,
                 request, loadedUrl, doc, apiStalls, rows, rowIdx, pushed, kvCalls,
                 outcome, redirected>>

\* kv.setValue(`games/${bggId}`, apiJson) inside try/catch.
KvSetValue(ok) ==
  /\ pc = "kv"
  /\ kvCalls' = Append(kvCalls, [key |-> KvKey(record.bgg_id), ok |-> ok])
  /\ IF AfterKv(ok) = "push"
     THEN pc' = "push" /\ outcome' = outcome
     ELSE pc' = "idle" /\ outcome' = "kvError"
  /\ UNCHANGED <<startUrls, useBrowser, useBggApi, followInternalOnly, queue, handled,
                 request, loadedUrl, doc, record, apiStalls, apiJson, normalized, rows,
                 rowIdx, pushed, redirected>>

\* await dataset.pushData(record); a rejection leaves the handler.
PushRecord(ok) ==
  /\ pc = "push"
  /\ pushed' = Append(pushed, [record |-> record, ok |-> ok])
  /\ pc' = "idle"
  /\ outcome' = IF ok THEN "done" ELSE "pushDataError"
  /\ UNCHANGED <<startUrls, useBrowser, useBggApi, followInternalOnly, queue, handled,
                 request, loadedUrl, doc, record, apiStalls, apiJson, normalized, rows,
                 rowIdx, kvCalls, redirected>>

\* The listing branch: enqueueLinks with the globs and the transform.  The
\* Cheerio handler then collects the row containers; the Playwright branch
\* ends here.
EnqueueLinks(links, rws) ==
  /\ pc = "listing"
  /\ queue' = queue \cup Enqueued(request, links)
  /\ rows' = rws
  /\ IF useBrowser \/ rws = <<>>
     THEN pc' = "idle" /\ outcome' = "done" /\ rowIdx' = 0
     ELSE pc' = "rows" /\ outcome' = outcome /\ rowIdx' = 1
  /\ UNCHANGED <<startUrls, useBrowser, useBggApi, followInternalOnly, handled, request,
                 loadedUrl, doc, record, apiStalls, apiJson, normalized, pushed,
                 kvCalls, redirected>>

\* One iteration of `for (const row of rows)`.
RowStep(ok) ==
  /\ pc = "rows"
  /\ LET row == rows[rowIdx]
         abs == RowAbs(row, loadedUrl)
         last == (rowIdx = Len(rows))
     IN IF abs.valid
        THEN /\ pushed' = Append(pushed,
                            [record |-> RowRecord(row, abs, loadedUrl, handled), ok |-> ok])
             /\ IF ~ok
                THEN pc' = "idle" /\ outcome' = "pushDataError" /\ rowIdx' = rowIdx
                ELSE IF last
                THEN pc' = "idle" /\ outcome' = "done" /\ rowIdx' = rowIdx + 1
                ELSE pc' = "rows" /\ outcome' = outcome /\ rowIdx' = rowIdx + 1
        ELSE /\ ok
             /\ pushed' = pushed
             /\ rowIdx' = rowIdx + 1
             /\ IF last
                THEN pc' = "idle" /\ outcome' = "done"
                ELSE pc' = "rows" /\ outcome' = outcome
  /\ UNCHANGED <<startUrls, useBrowser, useBggApi, followInternalOnly, queue, handled,
                 request, loadedUrl, doc, record, apiStalls, apiJson, normalized, rows,
                 kvCalls, redirected>>

Next ==
  \/ \E r \in queue : \E loaded \in {r.url} \cup RedirectTargets : RequestHandler(r, loaded)
  \/ \E d \in Docs : \E stalls \in BOOLEAN : ExtractGame(d, stalls)
  \/ \E resp \in ApiResponses : FetchReturns(resp)
  \/ \E ok \in BOOLEAN : KvSetValue(ok)
  \/ \E ok \in BOOLEAN : PushRecord(ok)
  \/ \E links \in {L \in SUBSET LinkPool : Cardinality(L) <= MaxLinks} :
       \E rws \in RowLists : EnqueueLinks(links, rws)
  \/ \E ok \in BOOLEAN : RowStep(ok)

Spec == Init /\ [][Next]_vars

\* Every step of a handler that can run does run; an API that never answers
\* leaves the handler waiting in `await fetch(url)`.
FairSpec == Spec /\ WF_vars(Next)

\* ------------------------------------------------------------ properties
\* A game page is being visited, or was the last page visited, and its
\* record has been built.
InGameVisit == handled > 0 /\ IsGamePage(loadedUrl) /\ pc # "game"

\* A listing visit has ended.
ListingVisitEnded == handled > 0 /\ ~IsGamePage(loadedUrl) /\ pc = "idle"

\* The HTML-only record of the page being visited.
Html == HtmlRecord(doc, loadedUrl, handled, useBrowser)

\* The enrichment branch is taken for this page.
EnrichmentEnabled == useBggApi /\ Truthy(BggIdOf(doc, useBrowser))

\* The API client yielded nothing usable: null, or a tree with no item in it.
ApiAbsent == apiJson = None \/ apiJson[1].thing = None

\* The fetch has settled.
AfterFetch == pc \in {"kv", "push", "idle"}

\* Number of rows whose first game link resolves to an absolute URL.
RECURSIVE ResolvableRows(_, _)
ResolvableRows(rws, url) ==
  IF rws = <<>> THEN 0
  ELSE (IF RowAbs(Head(rws), url).valid THEN 1 ELSE 0) + ResolvableRows(Tail(rws), url)

\* C1: on a game page with enrichment enabled where the API client yields
\* Absent, no kv write is attempted and the record handed to the dataset is
\* field for field the HTML-only record.
C1_AbsentKeepsHtmlRecord ==
  (InGameVisit /\ EnrichmentEnabled /\ AfterFetch /\ ApiAbsent) =>
     /\ kvCalls = <<>>
     /\ record = Html
     /\ pc = "idle" => (Len(pushed) = 1 /\ pushed[1].record = Html)

C1_Witness ==
  /\ InGameVisit /\ EnrichmentEnabled /\ pc = "idle"
  /\ apiJson # None /\ apiJson[1].thing = None
  /\ Len(pushed) = 1 /\ pushed[1].ok /\ kvCalls = <<>>

\* The value a collection field has after reconciliation with payload n.
OneCollection(api, html) == IF api # <<>> THEN api ELSE html

\* The value a scalar field has after reconciliation with payload n.
OneScalar(api, html) == IF Truthy(api) THEN api ELSE html

SameCoreFields(r, h) ==
  /\ r.name = h.name
  /\ r.year = h.year
  /\ r.description = h.description
  /\ r.url = h.url
  /\ r.extracted_at = h.extracted_at
  /\ r.bgg_id = h.bgg_id

C3_HtmlFieldsAuthoritative ==
  (InGameVisit /\ AfterFetch) =>
     /\ SameCoreFields(record, Html)
     /\ \A i \in 1..Len(pushed) : SameCoreFields(pushed[i].record, Html)

C3_Witness ==
  /\ InGameVisit /\ pc = "idle" /\ normalized # None
  /\ normalized[1].name # Html.name
  /\ normalized[1].year # Html.year
  /\ Len(pushed) = 1 /\ pushed[1].record.name = Html.name

\* C4: when a visit by the listing handler ends, the number of rows handed to
\* the dataset equals the number of rows whose first game link resolves.
C4_OneRowPerResolvableLink ==
  (ListingVisitEnded /\ ~useBrowser) => Len(pushed) = ResolvableRows(rows, loadedUrl)

\* Requests that were put into the queue by enqueueLinks.
Discovered == {r \in queue \cup {request} : r.depth >= 1}

\* C5: with followInternalOnly, every request enqueueLinks added has a URL
\* that parses and whose host is the host of the seed it was reached from.
C5_SameOriginOnly ==
  followInternalOnly =>
     \A r \in Discovered : r.url.valid /\ r.url.host = startUrls[r.seed].host

\* A seed was redirected to another host and links were still enqueued for
\* the seed's host.
C5_Witness ==
  /\ followInternalOnly /\ ListingVisitEnded
  /\ request.depth = 0 /\ loadedUrl.host # request.url.host
  /\ \E r \in queue : r.depth = 1 /\ r.seed = request.seed
                      /\ r.url.host = request.url.host

\* C6: every request in the queue carries, in userData.startHost, the host
\* of the seed it descends from.
C6_OriginHostCarried ==
  \A r \in queue : r.userData.startHost = startUrls[r.seed].host

\* C7: with a payload present exactly one kv write keyed by the id is
\* attempted, and whether or not it succeeds the visit goes on to hand the
\* reconciled record to the dataset.
C7_BlobWriteBestEffort ==
  /\ outcome # "kvError"
  /\ (InGameVisit /\ AfterFetch /\ normalized # None /\ pc # "kv") =>
        /\ Len(kvCalls) = 1
        /\ kvCalls[1].key = KvKey(Html.bgg_id)
        /\ pc = "idle" =>
             /\ Len(pushed) = 1
             /\ pushed[1].record = Enrich(Html, normalized[1])

C7_Witness ==
  /\ InGameVisit /\ pc = "idle" /\ normalized # None
  /\ Len(kvCalls) = 1 /\ ~kvCalls[1].ok
  /\ Len(pushed) = 1 /\ pushed[1].ok /\ outcome = "done"

\* C8: a failed dataset.pushData never ends the page's handler abnormally.
C8_AppendFailureDoesNotAbort ==
  (\E i \in 1..Len(pushed) : ~pushed[i].ok) => outcome # "pushDataError"

\* C9: a pending enrichment call always comes to an end, after which the
\* record is handed to the dataset.
C9_EnrichmentTimeBounded ==
  [](pc = "fetch" => <>(pc = "idle" /\ Len(pushed) = 1))

\* C10: every request enqueueLinks added is classified as a game page; a page
\* handled as a listing whose loaded URL is its requested URL is a seed; and
\* as long as no redirect happened nothing is deeper than one hop from a seed.
C10_DepthAtMostOne ==
  /\ \A r \in Discovered : IsGamePage(r.url)
  /\ (handled > 0 /\ ~IsGamePage(loadedUrl) /\ loadedUrl = request.url)
        => request.depth = 0
  /\ ~redirected => \A r \in Discovered : r.depth <= 1

\* A page enqueued from a seed was visited, without redirect, as a game page.
C10_Witness ==
  /\ ~redirected /\ pc = "idle" /\ outcome = "done"
  /\ request.depth = 1 /\ IsGamePage(loadedUrl) /\ loadedUrl = request.url

====
